---- MODULE Spec2Model ----
(***************************************************************************)
(* A model of the two engineered pieces of the repository:                *)
(*   - crawl_company_links (src/src/crawler.py, src/src/summariser.py):   *)
(*     a flat concurrent fan-out of crawler.arun over the seed list,      *)
(*     joined by asyncio.gather(return_exceptions=True);                  *)
(*   - clean_markdown (src/src/markdown_cleaner.py): whitespace           *)
(*     normalisation, URL citation, sentence split, score threshold,      *)
(*     reference section.                                                 *)
(* Spec is the crawl, SpecClean the cleaner.                              *)
(***************************************************************************)
EXTENDS Integers, Sequences, FiniteSets, TLC

VARIABLES
    relevant_links,   \* crawl: the seed list (argument)
    outcome,          \* crawl: what each arun task will do (environment)
    task,             \* crawl: each task's position: created / running / done
    doneOrder,        \* crawl: task indices in the order they completed
    arunStarted,      \* crawl: number of crawler.arun coroutines started
    pc,               \* crawl: call / gather / returned / raised
    crawled_data,     \* crawl: the mapping the function builds and returns
    raw_markdown,     \* clean: the argument, a sequence of characters
    cpc,              \* clean: start / done
    normalised,       \* clean: cleaned after step 1
    urls,             \* clean: re.findall's list
    citations,        \* clean: the citation table, in insertion order
    substituted,      \* clean: cleaned after the replacement loop of step 2
    sentences,        \* clean: step 3's sentence list
    scores,           \* clean: bm25.get_scores's vector (<<>> when step 3 is skipped)
    body,             \* clean: cleaned after step 3
    cleaned           \* clean: the returned string

cleanVars == <<raw_markdown, cpc, normalised, urls, citations, substituted,
               sentences, scores, body, cleaned>>

crawlVars == <<relevant_links, outcome, task, doneOrder, arunStarted, pc, crawled_data>>

----------------------------------------------------------------------------
(* Bounds *)

MaxSeeds == 2

\* Longest text over the whole alphabet.
MaxLen == 5

\* Longest text over the characters that make URLs.
MaxUrlTextLen == 8

\* Longest text over the characters that make sentences.
MaxSentenceTextLen == 8

Urls == {"u1", "u2"}

----------------------------------------------------------------------------
(* clean_markdown *)

\* Characters. "H" is the literal http:// ; "a" a word character; "." one of
\* . ! ? ; "SP" a blank, "NL" a newline; ")" the closing parenthesis.
Alphabet == {"H", "a", ".", ")", "SP", "NL"}

\* What \s matches and str.strip / str.split remove.
Whitespace == {"SP", "NL"}

Texts(chars, maxLen) == UNION {[1..n -> chars] : n \in 0..maxLen}

\* The arguments tried: short texts over the whole alphabet, longer ones over
\* the characters of URLs and over those of sentences.
Inputs ==
    Texts(Alphabet, MaxLen)
        \cup Texts({"H", "a", "SP"}, MaxUrlTextLen)
        \cup Texts({"a", ".", "SP"}, MaxSentenceTextLen)

\* bm25.get_scores yields one number per sentence. The scorer is the
\* rank_bm25 library's, so a score is any of these values, of either sign.
\* Scores are counted in halves of a unit, so that 0.5 * max is a whole
\* number.
ScoreValues == {-2, 0, 2, 4}

RECURSIVE LStrip(_)
LStrip(t) == IF t # <<>> /\ Head(t) \in Whitespace THEN LStrip(Tail(t)) ELSE t

RECURSIVE RStrip(_)
RStrip(t) ==
    IF t # <<>> /\ t[Len(t)] \in Whitespace THEN RStrip(SubSeq(t, 1, Len(t) - 1)) ELSE t

\* str.strip() without the strip.
NoStrip(t) == t

\* str.strip()
Strip(t) == RStrip(LStrip(t))

\* The last index of the run of characters of set S that starts at i (i - 1
\* when t[i] is not in S).
RECURSIVE RunEnd(_, _, _)
RunEnd(t, i, S) == IF i <= Len(t) /\ t[i] \in S THEN RunEnd(t, i + 1, S) ELSE i - 1

\* re.sub(r'\n\s*\n', '\n\n', t): at a newline, \s* takes the whole run of
\* whitespace that follows and gives back to the last newline in it.
RECURSIVE CollapseBlankLines(_, _)
CollapseBlankLines(t, i) ==
    IF i > Len(t) THEN <<>>
    ELSE LET e == RunEnd(t, i + 1, Whitespace)
             nls == {j \in (i + 1)..e : t[j] = "NL"}
         IN  IF t[i] = "NL" /\ nls # {}
             THEN LET j == CHOOSE x \in nls : \A y \in nls : y <= x
                  IN  <<"NL", "NL">> \o CollapseBlankLines(t, j + 1)
             ELSE <<t[i]>> \o CollapseBlankLines(t, i + 1)

\* re.findall(r"https?://[^\s)]+", t): the matches from index i on, left to
\* right, each the longest run, none overlapping another.
RECURSIVE FindUrls(_, _)
FindUrls(t, i) ==
    IF i > Len(t) THEN <<>>
    ELSE LET e == RunEnd(t, i + 1, Alphabet \ (Whitespace \cup {")"}))
         IN  IF t[i] = "H" /\ e > i
             THEN <<SubSeq(t, i, e)>> \o FindUrls(t, e + 1)
             ELSE FindUrls(t, i + 1)

\* The list kept as it is.
KeepDuplicates(us) == us

\* list(dict.fromkeys(us)): the first occurrence of each element, in order.
RECURSIVE Unique(_)
Unique(us) ==
    IF us = <<>> THEN <<>>
    ELSE LET front == Unique(SubSeq(us, 1, Len(us) - 1))
             last == us[Len(us)]
         IN  IF \E k \in 1..Len(front) : front[k] = last THEN front
             ELSE Append(front, last)

\* f"[{idx}]"
Marker(idx) == <<"[", ToString(idx), "]">>

\* re.sub(re.escape(pat), repl, t): every occurrence of pat from index i on,
\* left to right, none overlapping another.
RECURSIVE ReplaceAll(_, _, _, _)
ReplaceAll(t, pat, repl, i) ==
    IF i > Len(t) THEN <<>>
    ELSE IF i + Len(pat) - 1 <= Len(t) /\ SubSeq(t, i, i + Len(pat) - 1) = pat
         THEN repl \o ReplaceAll(t, pat, repl, i + Len(pat))
         ELSE <<t[i]>> \o ReplaceAll(t, pat, repl, i + 1)

\* citations[url] = idx on an insertion-ordered dict.
DictSet(d, url, idx) ==
    IF \E k \in 1..Len(d) : d[k].url = url
    THEN [k \in 1..Len(d) |-> IF d[k].url = url THEN [url |-> url, id |-> idx] ELSE d[k]]
    ELSE Append(d, [url |-> url, id |-> idx])

\* for idx, url in enumerate(unique_urls, start=1): the loop from idx on; it
\* yields the table and the text.
RECURSIVE CiteLoop(_, _, _, _)
CiteLoop(unique_urls, idx, d, t) ==
    IF idx > Len(unique_urls) THEN [citations |-> d, cleaned |-> t]
    ELSE CiteLoop(unique_urls, idx + 1,
                  DictSet(d, unique_urls[idx], idx),
                  ReplaceAll(t, unique_urls[idx], Marker(idx), 1))

\* re.split(r'(?<=[.!?])\s+', t): the pieces from index i on, piece being the
\* one under way. A separator is a whole run of whitespace that follows a
\* sentence mark.
RECURSIVE SplitPieces(_, _, _)
SplitPieces(t, i, piece) ==
    IF i > Len(t) THEN <<piece>>
    ELSE IF t[i] \in Whitespace /\ i > 1 /\ t[i - 1] = "."
         THEN <<piece>> \o SplitPieces(t, RunEnd(t, i, Whitespace) + 1, <<>>)
         ELSE SplitPieces(t, i + 1, Append(piece, t[i]))

\* [s.strip() for s in pieces if s.strip()]
RECURSIVE StripNonEmpty(_)
StripNonEmpty(pieces) ==
    IF pieces = <<>> THEN <<>>
    ELSE IF Strip(Head(pieces)) # <<>>
         THEN <<Strip(Head(pieces))>> \o StripNonEmpty(Tail(pieces))
         ELSE StripNonEmpty(Tail(pieces))

Sentences(t) == StripNonEmpty(SplitPieces(t, 1, <<>>))

\* max(scores)
RECURSIVE Max(_)
Max(sc) ==
    IF Len(sc) = 1 THEN sc[1]
    ELSE LET m == Max(Tail(sc)) IN IF sc[1] >= m THEN sc[1] ELSE m

\* threshold = 0.5 * max_score (scores are counted in halves)
Threshold(sc) == Max(sc) \div 2

\* score > threshold
StrictlyAbove(score, threshold) == score > threshold

\* score >= threshold
Keeps(score, threshold) == score >= threshold

\* [s for s, score in zip(sentences, scores) if score >= threshold]
RECURSIVE Filter(_, _, _)
Filter(sents, sc, threshold) ==
    IF sents = <<>> \/ sc = <<>> THEN <<>>
    ELSE IF Keeps(Head(sc), threshold)
         THEN <<Head(sents)>> \o Filter(Tail(sents), Tail(sc), threshold)
         ELSE Filter(Tail(sents), Tail(sc), threshold)

\* " ".join(sents)
RECURSIVE Join(_)
Join(sents) ==
    IF sents = <<>> THEN <<>>
    ELSE IF Len(sents) = 1 THEN sents[1]
    ELSE sents[1] \o <<"SP">> \o Join(Tail(sents))

\* "\n\n### References\n", the heading being one character of its own.
Heading == <<"NL", "NL", "### References", "NL">>

\* f"{idx}. {url}\n" for each item of the table, in its order.
RECURSIVE ReferenceLines(_)
ReferenceLines(d) ==
    IF d = <<>> THEN <<>>
    ELSE <<ToString(d[1].id), ".", "SP">> \o d[1].url \o <<"NL">> \o ReferenceLines(Tail(d))

\* The section appended whatever the table holds.
AlwaysReferences(d) == Heading \o ReferenceLines(d)

\* if citations: the heading and the lines
References(d) == IF d # <<>> THEN Heading \o ReferenceLines(d) ELSE <<>>

CleanInit ==
    /\ raw_markdown \in Inputs
    /\ cpc = "start"
    /\ normalised = <<>>
    /\ urls = <<>>
    /\ citations = <<>>
    /\ substituted = <<>>
    /\ sentences = <<>>
    /\ scores = <<>>
    /\ body = <<>>
    /\ cleaned = <<>>

\* One call of clean_markdown, start to return. The scorer is the library's:
\* its vector is any one of the right length.
CleanMarkdown ==
    /\ cpc = "start"
    /\ LET step1 == CollapseBlankLines(Strip(raw_markdown), 1)
           found == FindUrls(step1, 1)
           step2 == CiteLoop(Unique(found), 1, <<>>, step1)
           sents == Sentences(step2.cleaned)
       IN  /\ normalised' = step1
           /\ urls' = found
           /\ citations' = step2.citations
           /\ substituted' = step2.cleaned
           /\ sentences' = sents
           /\ IF sents # <<>>
              THEN \E sc \in [1..Len(sents) -> ScoreValues] :
                     /\ scores' = sc
                     /\ body' = Join(Filter(sents, sc, Threshold(sc)))
              ELSE /\ scores' = <<>>
                   /\ body' = step2.cleaned
           /\ cleaned' = body' \o References(step2.citations)
    /\ cpc' = "done"
    /\ UNCHANGED <<raw_markdown, crawlVars>>

----------------------------------------------------------------------------
(* crawl_company_links *)

\* result.markdown of a task that returned: two texts, the empty string, None.
Markdowns == {"a", "b", "", "None"}

\* A task returns a result (named by its markdown), raises an Exception, or
\* never completes.
Outcomes == Markdowns \cup {"Exception", "hang"}

SeedLists == UNION {[1..n -> Urls] : n \in 0..MaxSeeds}

Indices == 1..Len(relevant_links)

\* gather called without return_exceptions (its default).
ReturnExceptionsDefault == FALSE

\* asyncio.gather(*tasks, return_exceptions=True)
ReturnExceptions == TRUE

\* isinstance(result, Exception)
IsException(result) == result = "Exception"

\* Results listed as the tasks complete (as asyncio.as_completed would).
ResultsInCompletionOrder == [k \in 1..Len(doneOrder) |-> outcome[doneOrder[k]]]

\* gather's result list: one slot per task, in the order of the tasks.
GatherResults == [i \in Indices |-> outcome[i]]

\* crawled_data[url] = md
Put(d, url, md) == [k \in (DOMAIN d) \cup {url} |-> IF k = url THEN md ELSE d[k]]

\* for url, result in zip(relevant_links, results): skip exceptions, store
\* result.markdown. The loop from pair i on, with d built so far.
RECURSIVE ZipLoop(_, _, _, _)
ZipLoop(links, results, i, d) ==
    IF i > Len(links) \/ i > Len(results) THEN d
    ELSE IF IsException(results[i]) THEN ZipLoop(links, results, i + 1, d)
    ELSE ZipLoop(links, results, i + 1, Put(d, links[i], results[i]))

EmptyMap == [k \in {} |-> ""]

CrawlInit ==
    /\ relevant_links \in SeedLists
    /\ outcome \in [1..Len(relevant_links) -> Outcomes]
    /\ task = [i \in 1..Len(relevant_links) |-> "created"]
    /\ doneOrder = <<>>
    /\ arunStarted = 0
    /\ pc = "call"
    /\ crawled_data = EmptyMap

\* crawled_data = {}; the coroutines are created and handed to gather, which
\* wraps each in a task; the caller suspends at the await.
Call ==
    /\ pc = "call"
    /\ pc' = "gather"
    /\ crawled_data' = EmptyMap
    /\ UNCHANGED <<relevant_links, outcome, task, doneOrder, arunStarted, cleanVars>>

\* The event loop runs task i for the first time: its arun call starts.
TaskStart(i) ==
    /\ pc = "gather"
    /\ task[i] = "created"
    /\ task' = [task EXCEPT ![i] = "running"]
    /\ arunStarted' = arunStarted + 1
    /\ UNCHANGED <<relevant_links, outcome, doneOrder, pc, crawled_data, cleanVars>>

\* Task i reaches its outcome. No timeout surrounds the task: one that hangs
\* has no step. With return_exceptions an exception is a result like any
\* other; without it gather raises it into the awaiting caller at once.
TaskFinish(i) ==
    /\ pc = "gather"
    /\ task[i] = "running"
    /\ outcome[i] # "hang"
    /\ task' = [task EXCEPT ![i] = "done"]
    /\ doneOrder' = Append(doneOrder, i)
    /\ pc' = IF IsException(outcome[i]) /\ ~ReturnExceptions THEN "raised" ELSE "gather"
    /\ UNCHANGED <<relevant_links, outcome, arunStarted, crawled_data, cleanVars>>

\* The join done with asyncio.wait, which raises ValueError on an empty set of
\* tasks.
WaitReturn ==
    /\ pc = "gather"
    /\ \A i \in Indices : task[i] = "done"
    /\ IF relevant_links = <<>>
       THEN /\ crawled_data' = crawled_data
            /\ pc' = "raised"
       ELSE /\ crawled_data' = ZipLoop(relevant_links, GatherResults, 1, crawled_data)
            /\ pc' = "returned"
    /\ UNCHANGED <<relevant_links, outcome, task, doneOrder, arunStarted, cleanVars>>

\* Every task is done: gather returns the results, the loop builds the
\* mapping and the function returns it.
GatherReturn ==
    /\ pc = "gather"
    /\ \A i \in Indices : task[i] = "done"
    /\ crawled_data' = ZipLoop(relevant_links, GatherResults, 1, crawled_data)
    /\ pc' = "returned"
    /\ UNCHANGED <<relevant_links, outcome, task, doneOrder, arunStarted, cleanVars>>

Next ==
    \/ Call
    \/ \E i \in Indices : TaskStart(i)
    \/ \E i \in Indices : TaskFinish(i)
    \/ GatherReturn

vars == <<crawlVars, cleanVars>>

\* No call of clean_markdown under way.
CleanIdle ==
    /\ raw_markdown = <<>>
    /\ cpc = "idle"
    /\ normalised = <<>>
    /\ urls = <<>>
    /\ citations = <<>>
    /\ substituted = <<>>
    /\ sentences = <<>>
    /\ scores = <<>>
    /\ body = <<>>
    /\ cleaned = <<>>

\* No call of crawl_company_links under way.
CrawlIdle ==
    /\ relevant_links = <<>>
    /\ outcome = <<>>
    /\ task = <<>>
    /\ doneOrder = <<>>
    /\ arunStarted = 0
    /\ pc = "idle"
    /\ crawled_data = EmptyMap

Init == CrawlInit /\ CleanIdle

\* The crawl.
Spec == Init /\ [][Next]_vars

InitClean == CleanInit /\ CrawlIdle

NextClean == CleanMarkdown

\* The cleaner.
SpecClean == InitClean /\ [][NextClean]_vars

----------------------------------------------------------------------------
(* Claims about crawl_company_links *)

Returned(i) == outcome[i] \in Markdowns

\* C1: partial-failure isolation. Whatever each seed's task does (return a
\* result or raise an exception), the call never raises; when it returns,
\* every task has run to its own end (none was cancelled by a sibling's
\* exception) and every seed whose task returned a result is a key of the
\* returned mapping.
C1_PartialFailureIsolation ==
    /\ pc # "raised"
    /\ pc = "returned" =>
          /\ \A i \in Indices : task[i] = "done"
          /\ \A i \in Indices : Returned(i) => relevant_links[i] \in DOMAIN crawled_data

\* A task raised first, its sibling then returned a result and is in the mapping.
C1_Witness ==
    /\ pc = "returned"
    /\ Len(relevant_links) = 2
    /\ relevant_links[1] # relevant_links[2]
    /\ outcome[1] = "Exception"
    /\ outcome[2] = "a"
    /\ doneOrder = <<1, 2>>
    /\ DOMAIN crawled_data = {relevant_links[2]}

\* C2: no URL is fetched twice. The number of arun calls started in one run
\* equals the number of distinct URLs of the seed list.
C2_NoRevisit ==
    pc = "returned" =>
        arunStarted = Cardinality({relevant_links[i] : i \in Indices})

\* C3: every key of the returned mapping maps to non-empty text; a seed whose
\* result has empty or missing markdown is absent.
C3_NonEmptyText ==
    pc = "returned" =>
        \A u \in DOMAIN crawled_data : crawled_data[u] \notin {"", "None"}

\* C7: the crawl returns even when a task never completes on its own: short
\* of having returned, the run always has a step to take.
C7_CrawlReturns == pc = "returned" \/ ENABLED Next

\* The last seed position of url whose task returned a result.
LastReturned(u) ==
    CHOOSE i \in Indices :
        /\ relevant_links[i] = u /\ Returned(i)
        /\ \A j \in Indices : (relevant_links[j] = u /\ Returned(j)) => j <= i

\* C8: the returned mapping is a function of the seed list and the per-seed
\* outcomes alone, whatever the order in which the tasks completed: its keys
\* are the seeds whose task returned a result, each mapped to the markdown of
\* the last such seed position; and nothing is put in the mapping before
\* every task has reached a terminal outcome.
C8_OrderIndependent ==
    /\ pc = "returned" =>
          /\ DOMAIN crawled_data = {relevant_links[i] : i \in {j \in Indices : Returned(j)}}
          /\ \A u \in DOMAIN crawled_data : crawled_data[u] = outcome[LastReturned(u)]
    /\ crawled_data # EmptyMap => \A i \in Indices : task[i] = "done"

\* The same URL seeded twice with different texts, the second task done first.
C8_Witness ==
    /\ pc = "returned"
    /\ Len(relevant_links) = 2
    /\ relevant_links[1] = relevant_links[2]
    /\ outcome = <<"a", "b">>
    /\ doneOrder = <<2, 1>>
    /\ crawled_data[relevant_links[1]] = "b"

\* C11: called with zero seeds, crawl_company_links starts no fetch, does not
\* raise, does return, and the mapping it returns is empty.
C11_ZeroSeeds ==
    relevant_links = <<>> =>
        /\ arunStarted = 0
        /\ pc # "raised"
        /\ pc = "returned" \/ ENABLED Next
        /\ pc = "returned" => crawled_data = EmptyMap

\* The call on the empty seed list has returned.
C11_Witness ==
    /\ relevant_links = <<>>
    /\ pc = "returned"
    /\ arunStarted = 0
    /\ DOMAIN crawled_data = {}

----------------------------------------------------------------------------
(* Claims about clean_markdown *)

\* The id the citation table gives url.
IdOf(url) == (CHOOSE k \in 1..Len(citations) : citations[k].url = url)

\* The text with each match of the URL scan, from index i on, replaced by the
\* marker of the URL matched.
RECURSIVE MarkedByScan(_, _)
MarkedByScan(t, i) ==
    IF i > Len(t) THEN <<>>
    ELSE LET e == RunEnd(t, i + 1, Alphabet \ (Whitespace \cup {")"}))
         IN  IF t[i] = "H" /\ e > i
             THEN <<"[", ToString(citations[IdOf(SubSeq(t, i, e))].id), "]">>
                      \o MarkedByScan(t, e + 1)
             ELSE <<t[i]>> \o MarkedByScan(t, i + 1)

\* C4: every occurrence of each URL the scan found is replaced by the marker
\* of that same URL, also when one URL found is a prefix of another: after
\* the replacement loop the text is the scanned text with each match replaced
\* by its own marker.
C4_EveryOccurrenceOwnMarker ==
    cpc = "done" => substituted = MarkedByScan(normalised, 1)

FirstIndex(url) == CHOOSE k \in 1..Len(urls) : urls[k] = url /\ \A j \in 1..(k - 1) : urls[j] # url

\* The lines "{id}. {url}\n" for the ids from k up to n.
RECURSIVE LinesFrom(_, _)
LinesFrom(k, n) ==
    IF k > n THEN <<>>
    ELSE LET url == (CHOOSE c \in {citations[j] : j \in 1..Len(citations)} : c.id = k).url
         IN  <<ToString(k), ".", "SP">> \o url \o <<"NL">> \o LinesFrom(k + 1, n)

\* What follows the body in the returned string.
Appended == SubSeq(cleaned, Len(body) + 1, Len(cleaned))

\* C5: with N distinct URLs found, the citation table holds exactly them,
\* with the ids 1..N, no gap and none twice, in the order of each URL's first
\* occurrence; the appended reference section is the heading and the N lines
\* "{id}. {url}" in ascending id order, and nothing else.
C5_DenseIdsAndReferences ==
    cpc = "done" =>
        LET N == Cardinality({urls[k] : k \in 1..Len(urls)})
        IN  /\ Len(citations) = N
            /\ \A k \in 1..N : citations[k].id = k
            /\ {citations[k].url : k \in 1..N} = {urls[k] : k \in 1..Len(urls)}
            /\ \A j, k \in 1..N :
                   j < k => FirstIndex(citations[j].url) < FirstIndex(citations[k].url)
            /\ Appended = IF N = 0 THEN <<>> ELSE Heading \o LinesFrom(1, N)

\* A URL, another, the first again: two table entries, two lines.
C5_Witness ==
    /\ cpc = "done"
    /\ Len(urls) = 3
    /\ urls[1] = urls[3]
    /\ urls[1] # urls[2]
    /\ Len(citations) = 2
    /\ Appended = Heading \o <<"1", ".", "SP">> \o urls[1] \o <<"NL">>
                          \o <<"2", ".", "SP">> \o urls[2] \o <<"NL">>

\* The greatest score.
TopScore == CHOOSE m \in {scores[k] : k \in 1..Len(scores)} : \A k \in 1..Len(scores) : scores[k] <= m

\* Sentence k passes: its score is at least half the greatest.
Passes(k) == 2 * scores[k] >= TopScore

\* The sentences from k on that pass, each but the first led by a blank.
RECURSIVE PassingFrom(_, _)
PassingFrom(k, first) ==
    IF k > Len(sentences) THEN <<>>
    ELSE IF Passes(k)
         THEN (IF first THEN <<>> ELSE <<"SP">>) \o sentences[k] \o PassingFrom(k + 1, FALSE)
         ELSE PassingFrom(k + 1, first)

\* C6: with at least one sentence, the body is exactly the sentences whose
\* score is >= 0.5 * max(scores), in their original order, joined by single
\* blanks: a sentence at exactly half the maximum is kept, none below is.
C6_Thresholding ==
    (cpc = "done" /\ sentences # <<>>) =>
        /\ Len(scores) = Len(sentences)
        /\ body = PassingFrom(1, TRUE)

\* Three sentences: one at exactly half the maximum (kept), one at the
\* maximum (kept), one below (dropped).
C6_Witness ==
    /\ cpc = "done"
    /\ Len(sentences) = 3
    /\ scores = <<2, 4, 0>>
    /\ body = sentences[1] \o <<"SP">> \o sentences[2]

HasHeading(t) == \E k \in 1..Len(t) : t[k] = "### References"

\* C9: the reference section is appended if and only if the citation table is
\* non-empty, which is if and only if the text holds a URL; an empty body
\* does not change that.
C9_ReferencesIffCitations ==
    cpc = "done" =>
        /\ HasHeading(cleaned) <=> citations # <<>>
        /\ citations # <<>> <=> urls # <<>>

\* A URL in the text, no sentence kept, the section appended all the same.
C9_Witness ==
    /\ cpc = "done"
    /\ urls # <<>>
    /\ sentences # <<>>
    /\ body = <<>>
    /\ cleaned = References(citations)
    /\ HasHeading(cleaned)

\* C10: for an empty or whitespace-only argument the call returns the empty
\* string: no URL found, no sentence, no scoring, no reference section.
C10_BlankInput ==
    (cpc = "done" /\ \A k \in 1..Len(raw_markdown) : raw_markdown[k] \in Whitespace) =>
        /\ cleaned = <<>>
        /\ urls = <<>>
        /\ citations = <<>>
        /\ sentences = <<>>
        /\ scores = <<>>

\* A call on blanks and newlines has returned.
C10_Witness ==
    /\ cpc = "done"
    /\ Len(raw_markdown) >= 3
    /\ \E k \in 1..Len(raw_markdown) : raw_markdown[k] = "SP"
    /\ \E k \in 1..Len(raw_markdown) : raw_markdown[k] = "NL"
    /\ \A k \in 1..Len(raw_markdown) : raw_markdown[k] \in Whitespace
    /\ cleaned = <<>>

\* C12: whenever there is at least one sentence, every sentence holding the
\* maximum score passes the filter score >= 0.5 * max(scores), so the body is
\* not empty, whatever the score vector: all zero, or with a negative
\* maximum.
C12_TopSentenceKept ==
    (cpc = "done" /\ sentences # <<>>) =>
        /\ \A k \in 1..Len(sentences) :
               scores[k] = Max(scores) => Keeps(scores[k], Threshold(scores))
        /\ body # <<>>

====
